---- MODULE Spec2Model ----
(***************************************************************************)
(* Column transformation lineage of the vDataFrame (VerticaPy).            *)
(*                                                                         *)
(* A frame owns an ordered list of column aliases; every column owns a     *)
(* list of transformations (func, ctype, category) and a catalog of cached *)
(* statistics.  vColumn.apply appends a step (in place or on a copy), the  *)
(* query compiler evaluates step k of every column at nesting level k.     *)
(***************************************************************************)
EXTENDS Integers, Sequences, FiniteSets, TLC

(* ------------------------------ bounds --------------------------------- *)
MaxOps == 3            \* number of calls explored from the initial frame

(* --------------------------- finite domains ---------------------------- *)
FrameIds == {"f1", "f2"}
Aliases == {"x", "y", "z"}
BaseCols == <<"x", "y">>
RefAliases == {"y"}
CopyNames == {"y", "z"}
StatNames == {"max"}
CatIds == 1 .. 4
Rows == 1 .. 3
NoRef == "-"
Undef == 0 - 1

\* base relation: x = [1,2,3] (int), y = [10,20,30] (float)
BaseData == [x |-> <<1, 2, 3>>, y |-> <<10, 20, 30>>]
BaseType == [x |-> "int", y |-> "float"]

(* ---------------------- expressions (SQL templates) -------------------- *)
\* A template "{} * 2", "{} + y", '{} + "y"', "ABS({})", ... is kept as the
\* operation it applies to the placeholder, the column it names (if any) and
\* whether that name is written in its quoted form.
Func(op, ref, quoted) == [op |-> op, ref |-> ref, quoted |-> quoted]
Identity == Func("id", NoRef, FALSE)
RawColumn(c) == Func("raw", c, TRUE)
Mul2 == Func("mul2", NoRef, FALSE)
AddCol(c, q) == Func("add", c, q)
UserFuncs == {Mul2} \cup {AddCol(c, q) : c \in RefAliases, q \in BOOLEAN}

\* templates with no placeholder ("1") and with two ("{} + {}")
Const == Func("const", NoRef, FALSE)
Twice == Func("twice", NoRef, FALSE)
\* the number of "{}" in a template
Placeholders(func) ==
    IF func.op \in {"const", "raw"} THEN 0 ELSE IF func.op = "twice" THEN 2 ELSE 1

Step(func, ctype, category) == [func |-> func, ctype |-> ctype, category |-> category]

Max(S) == CHOOSE m \in S : \A n \in S : n <= m
Min(S) == CHOOSE m \in S : \A n \in S : m <= n
SeqToSet(s) == {s[i] : i \in 1 .. Len(s)}
IndexOf(s, e) == CHOOSE i \in 1 .. Len(s) : s[i] = e

(* ------------------------------ catalog -------------------------------- *)
\* A cached statistic remembers the column and the chain length it was
\* computed for; NoStat is the absent entry.
NoStat == [alias |-> NoRef, depth |-> 0]
EmptyCatalog == [s \in StatNames |-> NoStat]

(* ------------------------------- state --------------------------------- *)
VARIABLES
    frames,     \* frame id -> frame (columns, transformations, catalogs, history, exclude)
    intended,   \* frame id -> alias -> row -> the value the column had for its
                \* user right after the last transformation (bookkeeping only)
    last,       \* the last call and how it ended (bookkeeping only)
    nops,       \* number of calls made so far
    db,         \* the models and tables stored in the database
    obj         \* attributes of the KernelDensity object (map, store)

vars == <<frames, intended, last, nops, db, obj>>

(* ------------------------- frame: read access -------------------------- *)
\* verticapy.sql._utils._format.quote_ident: `quote_ident(column) in func`
quote_ident_in(column, func) == func.ref = column /\ func.quoted

\* vDataFrame.get_columns(): insertion order, without the excluded columns
get_columns(F) == SelectSeq(F.columns, LAMBDA c : c \notin F.exclude_columns)

\* activeColumns(includeExcluded)
activeColumns(F, includeExcluded) == IF includeExcluded THEN F.columns ELSE get_columns(F)

depth(F, c) == Len(F.transformations[c])
ctype(F, c) == F.transformations[c][depth(F, c)].ctype
category(F, c) == F.transformations[c][depth(F, c)].category
cachedStat(F, c, s) == IF F.catalog[c] = 0 THEN NoStat ELSE F.heap[F.catalog[c]][s]
HasColumn(F, c) == c \in SeqToSet(F.columns)

\* to_category: engine type -> category
to_category(t) == IF t \in {"int", "float"} THEN t ELSE "undefined"

\* get_data_types of the probe `SELECT func_apply AS apply_test_feature ...`
get_data_types(F, alias, func) ==
    IF func.op = "add" /\ (ctype(F, alias) = "float" \/ ctype(F, func.ref) = "float")
    THEN "float"
    ELSE ctype(F, alias)

\* the probe query runs only when the engine answers and every name resolves
ProbeSucceeds(F, func, db_ok) ==
    db_ok /\ (func.ref = NoRef \/ HasColumn(F, func.ref))

(* --------------------------- catalog objects --------------------------- *)
UsedCats(F) == {F.catalog[c] : c \in SeqToSet(F.columns)}
FreshCat(F) == Min(CatIds \ UsedCats(F))
\* objects no column points to are forgotten
Collect(F) ==
    [F EXCEPT !.heap = [i \in CatIds |-> IF i \in UsedCats(F) THEN F.heap[i] ELSE EmptyCatalog]]

\* __update_catalog__(erase=True, columns=[alias]): the column gets a new, empty
\* catalog (0 is the catalog of a column nothing was ever cached for: it is
\* empty already)
update_catalog_erase(F, alias) ==
    IF F.catalog[alias] = 0 THEN F
    ELSE LET id == FreshCat(F) IN
         Collect([F EXCEPT !.catalog[alias] = id, !.heap[id] = EmptyCatalog])

\* setCachedStat(alias, name): store the statistic of the current column
setCachedStat(F, alias, s) ==
    [F EXCEPT !.heap[F.catalog[alias]][s] = [alias |-> alias, depth |-> depth(F, alias)]]

\* __add_to_history__: one entry naming the column and the function applied
add_to_history(F, alias, func) ==
    [F EXCEPT !.history = Append(@, [alias |-> alias, func |-> func])]

(* ----------------------------- vColumn.apply --------------------------- *)
\* the test of the loop over all_cols: the quoted identifier is searched in
\* func; the word search uses module re, which math.py never imports, so it
\* raises NameError and the `except: pass` around it discards the column
ReferenceDetected(column, func) == quote_ident_in(column, func)

\* max_floor after the loop and after `max_floor -= len(self.transformations)`
max_floor(F, alias, func) ==
    Max({0} \cup {depth(F, c) : c \in {d \in SeqToSet(get_columns(F)) : ReferenceDetected(d, func)}})
        - depth(F, alias)

\* `for k in range(max_floor)`: identity steps with the type of self
Padding(F, alias, func) ==
    [k \in 1 .. Max({0, max_floor(F, alias, func)}) |-> Step(Identity, ctype(F, alias), category(F, alias))]

\* vColumn.add_copy: a new column with a copy of the chain and the catalog of self
add_copy(F, alias, name) ==
    [F EXCEPT !.columns = Append(@, name),
              !.transformations[name] = F.transformations[alias],
              !.catalog[name] = F.catalog[alias]]

\* (variant: the catalog of the column is kept)
ApplyInPlace_keepCatalog(F, alias, func, t) ==
    [F EXCEPT !.transformations[alias] =
                  @ \o Padding(F, alias, func) \o <<Step(func, t, to_category(t))>>]

\* (variant: no identity steps are added before the new step)
ApplyInPlace_noPadding(F, alias, func, t) ==
    update_catalog_erase(
        [F EXCEPT !.transformations[alias] = @ \o <<Step(func, t, to_category(t))>>], alias)

\* (variant: the new step is put in front of the chain)
ApplyInPlace_prepend(F, alias, func, t) ==
    update_catalog_erase(
        [F EXCEPT !.transformations[alias] =
                      <<Step(func, t, to_category(t))>> \o Padding(F, alias, func) \o @],
        alias)

\* (variant: the new step takes the place of the last step of the chain)
ApplyInPlace_replaceLast(F, alias, func, t) ==
    update_catalog_erase(
        [F EXCEPT !.transformations[alias] =
                      SubSeq(@, 1, Len(@) - 1) \o Padding(F, alias, func)
                          \o <<Step(func, t, to_category(t))>>],
        alias)

\* the `else` branch: pad, append, erase the catalog of the column
ApplyInPlace(F, alias, func, t) ==
    update_catalog_erase(
        [F EXCEPT !.transformations[alias] =
                      @ \o Padding(F, alias, func) \o <<Step(func, t, to_category(t))>>],
        alias)

\* (variant: the steps are added to self, not to the copy)
ApplyCopy_onSelf(F, alias, func, t, copy_name) ==
    LET G == add_copy(F, alias, copy_name) IN
    [G EXCEPT !.transformations[alias] =
                  @ \o Padding(F, alias, func) \o <<Step(func, t, to_category(t))>>,
              !.catalog[copy_name] = F.catalog[alias]]

\* (variant: the copy is listed before the existing columns)
ApplyCopy_front(F, alias, func, t, copy_name) ==
    LET G == add_copy(F, alias, copy_name) IN
    [G EXCEPT !.columns = <<copy_name>> \o F.columns,
              !.transformations[copy_name] =
                  @ \o Padding(F, alias, func) \o <<Step(func, t, to_category(t))>>,
              !.catalog[copy_name] = F.catalog[alias]]

\* the `if copy_name` branch: copy, pad the copy, append, share the catalog
ApplyCopy(F, alias, func, t, copy_name) ==
    LET G == add_copy(F, alias, copy_name) IN
    [G EXCEPT !.transformations[copy_name] =
                  @ \o Padding(F, alias, func) \o <<Step(func, t, to_category(t))>>,
              !.catalog[copy_name] = F.catalog[alias]]

\* (variant: the step is appended before the probe query is run)
apply_probeLast(F, alias, func, copy_name, db_ok) ==
    LET t == IF func.ref = NoRef \/ HasColumn(F, func.ref)
             THEN get_data_types(F, alias, func) ELSE ctype(F, alias) IN
    IF copy_name # "" /\ HasColumn(F, copy_name)
    THEN [frame |-> F, err |-> "QueryError"]
    ELSE LET G == IF copy_name = "" THEN ApplyInPlace(F, alias, func, t)
                  ELSE ApplyCopy(F, alias, func, t, copy_name) IN
         IF ~ProbeSucceeds(F, func, db_ok)
         THEN [frame |-> G, err |-> "QueryError"]
         ELSE [frame |-> add_to_history(G, alias, func), err |-> "none"]

\* (variant: the error of the probe query is discarded, not raised)
apply_swallow(F, alias, func, copy_name, db_ok) ==
    IF ~ProbeSucceeds(F, func, db_ok)
    THEN [frame |-> F, err |-> "none"]
    ELSE LET t == get_data_types(F, alias, func) IN
         IF copy_name = ""
         THEN [frame |-> add_to_history(ApplyInPlace(F, alias, func, t), alias, func),
               err |-> "none"]
         ELSE IF HasColumn(F, copy_name)
              THEN [frame |-> F, err |-> "QueryError"]
              ELSE [frame |-> add_to_history(ApplyCopy(F, alias, func, t, copy_name), alias, func),
                    err |-> "none"]

\* (variant: a template is accepted only with exactly one placeholder)
apply_validating(F, alias, func, copy_name, db_ok) ==
    IF Placeholders(func) # 1
    THEN [frame |-> F, err |-> "InvalidStep"]
    ELSE IF ~ProbeSucceeds(F, func, db_ok)
    THEN [frame |-> F, err |-> "QueryError"]
    ELSE LET t == get_data_types(F, alias, func) IN
         IF copy_name = ""
         THEN [frame |-> add_to_history(ApplyInPlace(F, alias, func, t), alias, func),
               err |-> "none"]
         ELSE IF HasColumn(F, copy_name)
              THEN [frame |-> F, err |-> "QueryError"]
              ELSE [frame |-> add_to_history(ApplyCopy(F, alias, func, t, copy_name), alias, func),
                    err |-> "none"]

\* (variant: the history entry is written before the probe query is run)
apply_logFirst(F, alias, func, copy_name, db_ok) ==
    IF ~ProbeSucceeds(F, func, db_ok)
    THEN [frame |-> add_to_history(F, alias, func), err |-> "QueryError"]
    ELSE LET t == get_data_types(F, alias, func) IN
         IF copy_name = ""
         THEN [frame |-> add_to_history(ApplyInPlace(F, alias, func, t), alias, func),
               err |-> "none"]
         ELSE IF HasColumn(F, copy_name)
              THEN [frame |-> F, err |-> "QueryError"]
              ELSE [frame |-> add_to_history(ApplyCopy(F, alias, func, t, copy_name), alias, func),
                    err |-> "none"]

\* vColumn.apply(func, copy_name): the frame after the call and the error raised
apply(F, alias, func, copy_name, db_ok) ==
    IF ~ProbeSucceeds(F, func, db_ok)
    THEN [frame |-> F, err |-> "QueryError"]
    ELSE LET t == get_data_types(F, alias, func) IN
         IF copy_name = ""
         THEN [frame |-> add_to_history(ApplyInPlace(F, alias, func, t), alias, func),
               err |-> "none"]
         ELSE IF HasColumn(F, copy_name)
              THEN [frame |-> F, err |-> "QueryError"]
              ELSE [frame |-> add_to_history(ApplyCopy(F, alias, func, t, copy_name), alias, func),
                    err |-> "none"]

(* ------------------------------ the frame ------------------------------ *)
\* Frame.copy(): every chain, catalog, the history and the exclude-set by value
copy(F) == F

\* Frame.dropColumn(alias): the entry is removed entirely
dropColumn(F, alias) ==
    Collect([F EXCEPT !.columns = SelectSeq(@, LAMBDA c : c # alias),
                      !.transformations[alias] = <<>>,
                      !.catalog[alias] = 0,
                      !.exclude_columns = @ \ {alias}])

excludeFromDefault(F, alias) == [F EXCEPT !.exclude_columns = @ \cup {alias}]
includeInDefault(F, alias) == [F EXCEPT !.exclude_columns = @ \ {alias}]

\* vDataFrame.numcol(): the active columns of a numerical category
numcol(F) == SelectSeq(get_columns(F), LAMBDA c : category(F, c) \in {"int", "float"})

\* lines 768-789 of apply_fun: the SQL function written for func on a column
\* of category cat ("FUNC({})" is written with the name in upper case)
apply_fun_name(func, cat) ==
    LET f == IF func = "mean" THEN "avg" ELSE IF func = "length" THEN "len" ELSE func IN
    IF f = "len"
    THEN (IF cat = "vmap" THEN "MAPSIZE"
          ELSE IF cat = "complex" THEN "APPLY_COUNT_ELEMENTS"
          ELSE "LENTGH")
    ELSE IF f \in {"max", "min", "sum", "avg", "count"} THEN "APPLY_" \o f
    ELSE IF f = "dim" THEN "ARRAY_DIMS"
    ELSE f

\* vColumn.apply_fun(func): the template "FUNC({})" of abs, ceil, floor,
\* round, len, ...
apply_fun(F, alias, func, db_ok) ==
    apply(F, alias, Func(apply_fun_name(func, category(F, alias)), NoRef, FALSE), "", db_ok)

\* vColumn.div(x): `assert x != 0, ...` then apply("{} / (x)"); optimize is
\* the interpreter running with -O, which compiles assert statements away
DivBy(x) == [x |-> x] @@ Func("div", NoRef, FALSE)
div(F, alias, x, optimize, db_ok) ==
    IF ~optimize /\ x = 0 THEN [frame |-> F, err |-> "AssertionError"]
    ELSE apply(F, alias, DivBy(x), "", db_ok)

\* vColumn.get_len(): the expression of the returned column, fun(alias)
get_len(F, alias) ==
    LET cat == category(F, alias)
        fun == IF cat = "vmap" THEN "MAPSIZE"
               ELSE IF cat = "complex" THEN "APPLY_COUNT_ELEMENTS"
               ELSE "LENGTH"
    IN Func(fun, alias, TRUE)

\* `for elem in columns: if category == "float": vdf[elem].apply_fun(func)`;
\* the first call that raises ends the loop
RECURSIVE ApplyEach(_, _, _, _, _)
ApplyEach(F, columns, func, floatOnly, db_ok) ==
    IF columns = <<>>
    THEN [frame |-> F, err |-> "none"]
    ELSE IF floatOnly /\ category(F, Head(columns)) # "float"
         THEN ApplyEach(F, Tail(columns), func, floatOnly, db_ok)
         ELSE LET r == apply_fun(F, Head(columns), func, db_ok) IN
              IF r.err # "none"
              THEN [frame |-> F, err |-> r.err]
              ELSE ApplyEach(r.frame, Tail(columns), func, floatOnly, db_ok)

\* vDataFrame.abs(): ABS({}) on every numerical column
abs(F, db_ok) == ApplyEach(F, numcol(F), "abs", FALSE, db_ok)

\* (variant: the receiver itself is transformed and returned)
dunder_noCopy(F, func, db_ok) ==
    LET r == IF func = "abs" THEN abs(F, db_ok)
             ELSE ApplyEach(F, numcol(F), func, TRUE, db_ok)
    IN [self |-> r.frame, ret |-> r.frame, err |-> r.err]

\* __abs__, __ceil__, __floor__, __round__: transform a copy and return it;
\* self is what the receiver is after the call, ret what the caller gets
dunder(F, func, db_ok) ==
    LET vdf == copy(F)
        r == IF func = "abs" THEN abs(vdf, db_ok)
             ELSE ApplyEach(vdf, numcol(vdf), func, TRUE, db_ok)
    IN [self |-> F, ret |-> r.frame, err |-> r.err]

(* ----------------------------- bookkeeping ----------------------------- *)
NoRows == [r \in Rows |-> Undef]

\* the value a template gives for the placeholder value p and the named column's value v
StepVal(func, p, v) ==
    IF func.op = "raw" THEN v
    ELSE IF func.op = "mul2" THEN (IF p = Undef THEN Undef ELSE 2 * p)
    ELSE IF func.op = "add" THEN (IF p = Undef \/ v = Undef THEN Undef ELSE p + v)
    ELSE IF func.op = "const" THEN 1
    ELSE IF func.op = "twice" THEN (IF p = Undef THEN Undef ELSE p + p)
    ELSE p

IntendedAfter(I, alias, func) ==
    [r \in Rows |-> StepVal(func, I[alias][r], IF func.ref = NoRef THEN Undef ELSE I[func.ref][r])]

(* --------------------------- query compiler ---------------------------- *)
\* D: the number of nesting levels
Levels(F) == Max({0} \cup {depth(F, c) : c \in SeqToSet(get_columns(F))})

\* the value of alias c in row r at nesting level k; level 0 is the base
\* relation, level k evaluates step k of every column against level k-1 and
\* carries the columns with fewer steps forward unchanged
RECURSIVE LevelVal(_, _, _, _)
LevelVal(F, c, k, r) ==
    IF k = 0
    THEN (IF c \in SeqToSet(BaseCols) THEN BaseData[c][r] ELSE Undef)
    ELSE IF ~HasColumn(F, c) THEN Undef
    ELSE IF k > depth(F, c) THEN LevelVal(F, c, k - 1, r)
    ELSE LET fn == F.transformations[c][k].func IN
         StepVal(fn, LevelVal(F, c, k - 1, r),
                 IF fn.ref = NoRef THEN Undef ELSE LevelVal(F, fn.ref, k - 1, r))

\* compileSQL(): the error, the select list, the rows and the names in the text
CompileError(F) == IF get_columns(F) = <<>> THEN "EmptyFrame" ELSE "none"
CompiledRows(F, c) == [r \in Rows |-> LevelVal(F, c, Levels(F), r)]
QueryRefs(F) ==
    SeqToSet(F.columns) \cup
    (UNION {{F.transformations[c][k].func.ref : k \in 1 .. depth(F, c)} :
                c \in SeqToSet(F.columns)} \ {NoRef})

RECURSIVE IntendedEach(_, _, _, _, _)
IntendedEach(I, F, columns, func, floatOnly) ==
    IF columns = <<>> THEN I
    ELSE IF floatOnly /\ category(F, Head(columns)) # "float"
         THEN IntendedEach(I, F, Tail(columns), func, floatOnly)
         ELSE IntendedEach([I EXCEPT ![Head(columns)] = IntendedAfter(I, Head(columns), Func(func, NoRef, FALSE))],
                           F, Tail(columns), func, floatOnly)

\* cached, depth: the statistics cached on the column and the length of its
\* chain when the call was made
Call(op, f, alias, copy_name, err) ==
    [op |-> op, frame |-> f, alias |-> alias, copy_name |-> copy_name, err |-> err,
     cached |-> IF f \in DOMAIN frames /\ alias \in Aliases
                THEN {s \in StatNames : cachedStat(frames[f], alias, s) # NoStat}
                ELSE {},
     depth |-> IF f \in DOMAIN frames /\ alias \in Aliases THEN depth(frames[f], alias) ELSE 0]

(* -------------------------------- Init --------------------------------- *)
InitFrame ==
    [columns |-> BaseCols,
     transformations |-> [c \in Aliases |->
         IF c \in SeqToSet(BaseCols)
         THEN <<Step(RawColumn(c), BaseType[c], to_category(BaseType[c]))>>
         ELSE <<>>],
     catalog |-> [c \in Aliases |-> IF c \in SeqToSet(BaseCols) THEN IndexOf(BaseCols, c) ELSE 0],
     heap |-> [i \in CatIds |-> EmptyCatalog],
     history |-> <<>>,
     exclude_columns |-> {}]

Init ==
    /\ frames = [f \in {"f1"} |-> InitFrame]
    /\ intended = [f \in {"f1"} |-> [c \in Aliases |->
           IF c \in SeqToSet(BaseCols) THEN [r \in Rows |-> BaseData[c][r]] ELSE NoRows]]
    /\ last = [op |-> "init", frame |-> "f1", alias |-> NoRef, copy_name |-> "", err |-> "none",
               cached |-> {}, depth |-> 0]
    /\ nops = 0
    /\ db = {}
    /\ obj = [map |-> FALSE, store |-> TRUE]

(* ------------------------------- actions ------------------------------- *)
\* every call counts against the number of calls explored
Tick == nops < MaxOps /\ nops' = nops + 1 /\ UNCHANGED <<db, obj>>

\* vdf[alias].apply(func, copy_name)
Apply(f, alias, func, copy_name, db_ok) ==
    /\ Tick
    /\ f \in DOMAIN frames
    /\ HasColumn(frames[f], alias)
    /\ LET r == apply(frames[f], alias, func, copy_name, db_ok)
           target == IF copy_name = "" THEN alias ELSE copy_name
       IN /\ frames' = [frames EXCEPT ![f] = r.frame]
          /\ intended' = IF r.err = "none"
                         THEN [intended EXCEPT ![f][target] = IntendedAfter(intended[f], alias, func)]
                         ELSE intended
          /\ last' = Call("apply", f, alias, copy_name, r.err)

\* an aggregate of the column is computed and kept in its catalog
SetCachedStat(f, alias, s) ==
    /\ Tick
    /\ f \in DOMAIN frames
    /\ HasColumn(frames[f], alias)
    /\ frames' = [frames EXCEPT ![f] = setCachedStat(frames[f], alias, s)]
    /\ last' = Call("setCachedStat", f, alias, "", "none")
    /\ UNCHANGED intended

\* vdf.copy()
Copy(f, g) ==
    /\ Tick
    /\ f \in DOMAIN frames
    /\ g \in FrameIds \ DOMAIN frames
    /\ frames' = [h \in DOMAIN frames \cup {g} |-> IF h = g THEN copy(frames[f]) ELSE frames[h]]
    /\ intended' = [h \in DOMAIN frames \cup {g} |-> IF h = g THEN intended[f] ELSE intended[h]]
    /\ last' = Call("copy", f, NoRef, "", "none")

\* abs(vdf), ceil, floor, round of the frame: g names the returned frame
Dunder(f, g, func, db_ok) ==
    /\ Tick
    /\ f \in DOMAIN frames
    /\ g \in FrameIds \ DOMAIN frames
    /\ LET r == dunder(frames[f], func, db_ok) IN
       IF r.err = "none"
       THEN /\ frames' = [h \in DOMAIN frames \cup {g} |->
                             IF h = g THEN r.ret ELSE IF h = f THEN r.self ELSE frames[h]]
            /\ intended' = [h \in DOMAIN frames \cup {g} |->
                             IF h = g
                             THEN IntendedEach(intended[f], frames[f], numcol(frames[f]), func, func # "abs")
                             ELSE intended[h]]
            /\ last' = Call("dunder", f, NoRef, "", "none")
       ELSE /\ frames' = [frames EXCEPT ![f] = r.self]
            /\ last' = Call("dunder", f, NoRef, "", r.err)
            /\ UNCHANGED intended

\* vdf.drop(alias)
DropColumn(f, alias) ==
    /\ Tick
    /\ f \in DOMAIN frames
    /\ IF HasColumn(frames[f], alias)
       THEN /\ frames' = [frames EXCEPT ![f] = dropColumn(frames[f], alias)]
            /\ intended' = [intended EXCEPT ![f][alias] = NoRows]
            /\ last' = Call("dropColumn", f, alias, "", "none")
       ELSE /\ last' = Call("dropColumn", f, alias, "", "UnknownColumn")
            /\ UNCHANGED <<frames, intended>>

ExcludeFromDefault(f, alias) ==
    /\ Tick
    /\ f \in DOMAIN frames
    /\ HasColumn(frames[f], alias)
    /\ alias \notin frames[f].exclude_columns
    /\ frames' = [frames EXCEPT ![f] = excludeFromDefault(frames[f], alias)]
    /\ last' = Call("excludeFromDefault", f, alias, "", "none")
    /\ UNCHANGED intended

IncludeInDefault(f, alias) ==
    /\ Tick
    /\ f \in DOMAIN frames
    /\ alias \in frames[f].exclude_columns
    /\ frames' = [frames EXCEPT ![f] = includeInDefault(frames[f], alias)]
    /\ last' = Call("includeInDefault", f, alias, "", "none")
    /\ UNCHANGED intended

Next ==
    \/ \E f \in FrameIds, a \in Aliases, fn \in UserFuncs, n \in {""} \cup CopyNames, ok \in BOOLEAN :
           Apply(f, a, fn, n, ok)
    \/ \E f \in FrameIds, a \in Aliases, s \in StatNames : SetCachedStat(f, a, s)
    \/ \E f, g \in FrameIds : Copy(f, g)
    \/ \E f, g \in FrameIds, fn \in {"abs", "ceil", "floor", "round"}, ok \in BOOLEAN :
           Dunder(f, g, fn, ok)
    \/ \E f \in FrameIds, a \in Aliases : DropColumn(f, a)
    \/ \E f \in FrameIds, a \in Aliases : ExcludeFromDefault(f, a)
    \/ \E f \in FrameIds, a \in Aliases : IncludeInDefault(f, a)

Spec == Init /\ [][Next]_vars

(* ------------------------------ properties ----------------------------- *)
LastFrame == frames[last.frame]
LastFunc == LastFrame.history[Len(LastFrame.history)].func
AppliedInPlace == last.op = "apply" /\ last.err = "none" /\ last.copy_name = ""
AppliedCopy == last.op = "apply" /\ last.err = "none" /\ last.copy_name # ""

\* C1: after a successful in-place apply on a column, every statistic that
\* was cached for that column before the call is absent from its catalog.
C1_CacheInvalidation ==
    AppliedInPlace =>
        \A s \in last.cached : cachedStat(LastFrame, last.alias, s) = NoStat

C1_Witness == AppliedInPlace /\ last.cached # {}

\* C2 (as stated): every successful in-place apply increases the depth of
\* its column by exactly 1, whatever columns the expression references.
C2_DepthPlusOne ==
    AppliedInPlace => depth(LastFrame, last.alias) = last.depth + 1

\* C2 (amended): the depth of a column that stays in the frame never
\* decreases, and a successful in-place apply increases it by 1 plus the
\* identity steps padded first: max(0, D - d), with d the depth before the
\* call and D the largest depth among the active columns whose quoted
\* identifier occurs in the expression.
C2_DepthMonotone ==
    [][\A f \in DOMAIN frames \cap DOMAIN frames' : \A c \in Aliases :
          /\ (HasColumn(frames[f], c) /\ HasColumn(frames'[f], c))
                => depth(frames'[f], c) >= depth(frames[f], c)
          /\ (last'.op = "apply" /\ last'.err = "none" /\ last'.copy_name = ""
                /\ last'.frame = f /\ last'.alias = c)
                => LET fn == frames'[f].history[Len(frames'[f].history)].func
                       d == depth(frames[f], c)
                       D == Max({0} \cup {depth(frames[f], b) :
                                b \in {a \in Aliases : /\ HasColumn(frames[f], a)
                                                       /\ a \notin frames[f].exclude_columns
                                                       /\ fn.ref = a /\ fn.quoted}})
                   IN depth(frames'[f], c) = d + 1 + Max({0, D - d})]_vars

\* an in-place apply that had to pad: the referenced column was deeper
C2_Witness == AppliedInPlace /\ depth(LastFrame, last.alias) > last.depth + 1

\* C3: when apply creates a new column, the real step sits at a position
\* strictly greater than the depth of every column the expression references.
C3_RealStepAboveReferences ==
    (AppliedCopy /\ LastFunc.ref # NoRef /\ LastFunc.ref # last.copy_name)
        => depth(LastFrame, last.copy_name) > depth(LastFrame, LastFunc.ref)

\* C4: in a frame with column A of depth 3 and column B of depth 1 where
\* step 2 of A references B, B's value is carried unchanged through every
\* nesting level and the compiled value of A is the value A had for the user
\* after its steps were applied in order.
C4_Case(f, A, B) ==
    /\ f \in DOMAIN frames
    /\ A # B /\ HasColumn(frames[f], A) /\ HasColumn(frames[f], B)
    /\ depth(frames[f], A) = 3 /\ depth(frames[f], B) = 1
    /\ frames[f].transformations[A][2].func.ref = B
    /\ frames[f].transformations[A][3].func.ref \in {NoRef, B}
    /\ A \notin frames[f].exclude_columns

C4_LevelAlignment ==
    \A f \in FrameIds, A, B \in Aliases :
        C4_Case(f, A, B) =>
            /\ \A k \in 1 .. Levels(frames[f]), r \in Rows :
                   LevelVal(frames[f], B, k, r) = BaseData[B][r]
            /\ CompiledRows(frames[f], A) = intended[f][A]

C4_Witness == \E f \in FrameIds, A, B \in Aliases : C4_Case(f, A, B)

\* C5: on x=[1,2,3], y=[10,20,30], creating z from x with '{} * 2' and then
\* transforming z with '{} + y' gives depth(z)=3, the second step reads z's
\* own value of the previous level, and the compiled query returns
\* z=[12,24,36] with the columns in the order x, y, z.
C5_Case(f) ==
    /\ f \in DOMAIN frames
    /\ frames[f].history = <<[alias |-> "x", func |-> Mul2],
                             [alias |-> "z", func |-> AddCol("y", FALSE)]>>
    /\ SeqToSet(frames[f].columns) = {"x", "y", "z"}
    /\ frames[f].exclude_columns = {}

C5_Scenario ==
    \A f \in FrameIds :
        C5_Case(f) =>
            /\ depth(frames[f], "z") = 3
            /\ \A r \in Rows : LevelVal(frames[f], "z", 3, r)
                                  = LevelVal(frames[f], "z", 2, r) + BaseData["y"][r]
            /\ CompileError(frames[f]) = "none"
            /\ CompiledRows(frames[f], "z") = [r \in Rows |-> <<12, 24, 36>>[r]]
            /\ activeColumns(frames[f], FALSE) = <<"x", "y", "z">>

C5_Witness == \E f \in FrameIds : C5_Case(f)

\* what copy independence is about: the active columns, the depths and the
\* cached statistics of a frame
Observed(F) ==
    [active |-> activeColumns(F, FALSE),
     depths |-> [c \in Aliases |-> depth(F, c)],
     stats |-> [c \in Aliases |-> [s \in StatNames |-> cachedStat(F, c, s)]]]

\* C6: a call on one frame leaves the active columns, depths and cached
\* statistics of every other frame as they were, and copy, abs(frame),
\* round, ceil and floor leave those of their receiver as they were.
C6_CopyIndependence ==
    [][\A h \in DOMAIN frames :
          (h # last'.frame \/ last'.op \in {"copy", "dunder"})
              => h \in DOMAIN frames' /\ Observed(frames'[h]) = Observed(frames[h])]_vars

C6_Witness ==
    /\ Cardinality(DOMAIN frames) = 2
    /\ last.frame = "f2" /\ last.err = "none"
    /\ last.op \in {"apply", "dropColumn"}

C6_WitnessDunder ==
    /\ last.op = "dunder" /\ last.err = "none"
    /\ \E c \in Aliases : depth(frames["f2"], c) > depth(frames["f1"], c)

\* C7: an apply that fails leaves every frame as it was: columns and their
\* order, chains, catalogs, history and exclude-set.
C7_AtomicFailure ==
    [][(last'.op = "apply" /\ last'.err # "none") => frames' = frames]_vars

C7_Witness == last.op = "apply" /\ last.err = "QueryError"

\* C8: after apply(func, copy_name=n) the catalog of n holds only statistics
\* computed for n's current chain, none computed for the source column.
C8_DerivedCacheValid ==
    AppliedCopy =>
        \A s \in StatNames :
            LET e == cachedStat(LastFrame, last.copy_name, s) IN
            e = NoStat \/ (e.alias = last.copy_name
                           /\ e.depth = depth(LastFrame, last.copy_name))

\* C9: transformations, creations and exclude/include toggles never move a
\* column: two columns listed by activeColumns() before and after a call keep
\* their order, and a column created by the call comes after every column
\* that was there before.
C9_OrderPreservation ==
    [][\A f \in DOMAIN frames \cap DOMAIN frames' :
          LET old == frames[f]
              new == frames'[f]
              Kept(s, F) == SelectSeq(s, LAMBDA c : HasColumn(F, c))
              KeptActive(s, F) == SelectSeq(s, LAMBDA c : c \in SeqToSet(get_columns(F)))
          IN /\ KeptActive(activeColumns(old, FALSE), new)
                   = KeptActive(activeColumns(new, FALSE), old)
             /\ SubSeq(activeColumns(new, TRUE), 1, Len(Kept(old.columns, new)))
                   = Kept(activeColumns(old, TRUE), new)]_vars

C9_Witness ==
    /\ last.op = "includeInDefault"
    /\ activeColumns(LastFrame, FALSE) = <<"x", "y", "z">>

\* C10: in the x, y, z frame where z's chain contains the step '{} + y',
\* after dropColumn("y") the compiled query contains no reference to y and
\* does not fail with EmptyFrame.
C10_Case ==
    /\ last.op = "dropColumn" /\ last.err = "none" /\ last.alias = "y"
    /\ SeqToSet(LastFrame.columns) = {"x", "z"}
    /\ \E k \in 1 .. depth(LastFrame, "z") :
           LastFrame.transformations["z"][k].func.op = "add"
           /\ LastFrame.transformations["z"][k].func.ref = "y"

C10_DropScenario ==
    C10_Case => CompileError(LastFrame) = "none" /\ "y" \notin QueryRefs(LastFrame)

C10_NotEmptyAfterDrop == C10_Case => CompileError(LastFrame) = "none"

\* C14: when a successful apply names another column in its expression, by
\* its quoted identifier or by its bare name as a free-standing word, the
\* depth of that column is counted when padding: the new step sits above it.
C14_ReferenceCounted ==
    (last.op = "apply" /\ last.err = "none" /\ LastFunc.ref # NoRef) =>
        LET target == IF last.copy_name = "" THEN last.alias ELSE last.copy_name IN
        LastFunc.ref # target =>
            depth(LastFrame, target) >= depth(LastFrame, LastFunc.ref) + 1

IsPrefix(s, t) == Len(s) <= Len(t) /\ SubSeq(t, 1, Len(s)) = s

\* C15: a step, once appended, is never modified or reordered: in every call
\* the chain a column had before is a prefix of the chain it has after, and
\* a successful apply leaves the chains of all the other existing columns
\* unchanged.
C15_StepsImmutable ==
    [][\A f \in DOMAIN frames \cap DOMAIN frames' : \A c \in Aliases :
          (HasColumn(frames[f], c) /\ HasColumn(frames'[f], c)) =>
              /\ IsPrefix(frames[f].transformations[c], frames'[f].transformations[c])
              /\ (last'.op = "apply" /\ last'.err = "none"
                    /\ ~(last'.frame = f /\ last'.alias = c /\ last'.copy_name = ""))
                     => frames'[f].transformations[c] = frames[f].transformations[c]]_vars

\* a column that already had a transformation is transformed again
C15_Witness ==
    /\ AppliedInPlace /\ last.depth >= 2
    /\ depth(LastFrame, last.alias) > last.depth

\* C16: the history only grows at its end: no call removes or rewrites an
\* entry; a successful apply appends exactly one entry, naming the column it
\* was called on and the function that is by then the last step of the
\* transformed chain; an apply that fails appends nothing.
C16_HistoryAppendOnly ==
    [][\A f \in DOMAIN frames \cap DOMAIN frames' :
          LET old == frames[f]
              new == frames'[f]
              target == IF last'.copy_name = "" THEN last'.alias ELSE last'.copy_name
          IN /\ IsPrefix(old.history, new.history)
             /\ (last'.op = "apply" /\ last'.frame = f /\ last'.err = "none") =>
                    /\ Len(new.history) = Len(old.history) + 1
                    /\ new.history[Len(new.history)] =
                           [alias |-> last'.alias,
                            func |-> new.transformations[target][depth(new, target)].func]
                    /\ depth(new, target) > depth(old, last'.alias)
             /\ (last'.op = "apply" /\ last'.err # "none") => new.history = old.history]_vars

\* a second entry is appended by an apply that creates a column
C16_Witness == AppliedCopy /\ Len(LastFrame.history) >= 2

\* C18: once a step that references column B is in the chain of column A,
\* the values the query computes for A are not changed by a later
\* transformation of B, whatever the depths of A and B were.
C18_Snapshot ==
    [][(last'.op = "apply" /\ last'.err = "none" /\ last'.copy_name = "") =>
          LET f == last'.frame
              B == last'.alias
          IN \A A \in Aliases \ {B} :
                 (/\ HasColumn(frames[f], A)
                  /\ \E k \in 2 .. depth(frames[f], A) :
                         frames[f].transformations[A][k].func.ref = B)
                     => CompiledRows(frames'[f], A) = CompiledRows(frames[f], A)]_vars

\* C22: after apply(func, copy_name=n), storing a cached statistic on n, or
\* clearing the cache of n by an in-place apply, does not change the cached
\* statistics of the source column, and storing or clearing on the source
\* column does not change those of n.
C22_NoSharedCache ==
    [][(/\ AppliedCopy
        /\ last'.frame = last.frame
        /\ last'.alias \in {last.alias, last.copy_name}
        /\ \/ last'.op = "setCachedStat"
           \/ last'.op = "apply" /\ last'.err = "none" /\ last'.copy_name = "")
          => \A other \in {last.alias, last.copy_name} \ {last'.alias}, s \in StatNames :
                 cachedStat(frames'[last.frame], other, s)
                     = cachedStat(frames[last.frame], other, s)]_vars

(* ------------------------- vDataFrame.analytic ------------------------- *)
\* random.randint(0, 10000000): two numbers, so that two calls can draw the
\* same number or different ones
RandomNbs == {0, 1}
AnalyticFuncs == {"kurtosis", "skewness", "jb", "aad", "mad", "sum", "row_number", "lead"}
Aggregates == {"kurtosis", "skewness", "jb", "aad", "mad", "sum"}
HelperFuncs == {"skewness", "kurtosis", "aad", "mad", "jb"}
\* lines 356-390: the functions that need an input column, and those of the
\* same branch that take one or none
NeedColumn == {"lead", "lag", "first_value", "last_value", "pct_change"}
ColumnAllowed == NeedColumn \cup {"exponential_moving_average"}
AnalyticCols == {"x"}
ResultNames == {"", "k"}
HelperKinds == {"mean", "median", "std", "count"}

\* f"{column_str}_mean_{random_nb}", ..._median_..., ..._std_..., ..._count_...
HelperName(column_str, kind, random_nb) ==
    column_str \o "_" \o kind \o "_" \o ToString(random_nb)
HelperNames ==
    {HelperName(c, k, n) : c \in AnalyticCols, k \in HelperKinds, n \in RandomNbs}
KindOf(h) ==
    CHOOSE k \in HelperKinds : \E c \in AnalyticCols, n \in RandomNbs : h = HelperName(c, k, n)
AllAliases == Aliases \cup (ResultNames \ {""}) \cup HelperNames

\* an analytic expression: the function, the column it is computed on
\* (written quoted, as format_colnames returns it) and the helper columns it
\* names (written unquoted)
Expr(op, columns, words) ==
    [op |-> op, ref |-> IF columns = <<>> THEN NoRef ELSE columns[1], quoted |-> TRUE,
     words |-> words]
Refs(func) ==
    (IF func.ref = NoRef THEN {} ELSE {func.ref})
        \cup (IF "words" \in DOMAIN func THEN func.words ELSE {})

\* vDataFrame.eval(name, expr): on an existing alias the step is applied to
\* its entry; a new alias gets a chain padded with identity steps up to the
\* largest depth among the columns the expression references, then the step
evalColumn(F, name, expr, db_ok) ==
    IF HasColumn(F, name) THEN apply(F, name, expr, "", db_ok)
    ELSE IF ~(Refs(expr) \subseteq SeqToSet(F.columns))
    THEN [frame |-> F, err |-> "UnknownColumn"]
    ELSE IF ~db_ok THEN [frame |-> F, err |-> "TypeInferenceFailure"]
    ELSE LET D == Max({0} \cup {depth(F, c) : c \in Refs(expr)}) IN
         [frame |-> add_to_history(
                        [F EXCEPT !.columns = Append(@, name),
                                  !.transformations[name] =
                                      [k \in 1 .. D |-> Step(Identity, "float", "float")]
                                          \o <<Step(expr, "float", "float")>>,
                                  !.catalog[name] = 0],
                        name, expr),
          err |-> "none"]

\* the self.eval calls of one branch, in order; the i-th call is the one the
\* engine rejects when i = fail_at; a call that raises ends analytic, the
\* columns created by the calls before it stay in the frame
RECURSIVE EvalAll(_, _, _, _)
EvalAll(F, calls, i, fail_at) ==
    IF calls = <<>> THEN [frame |-> F, err |-> "none"]
    ELSE LET r == evalColumn(F, Head(calls).name, Head(calls).expr, i # fail_at) IN
         IF r.err # "none" THEN r
         ELSE EvalAll(r.frame, Tail(calls), i + 1, fail_at)

\* lines 234-292: the helper columns and the result column of skewness,
\* kurtosis, aad, mad and jb
HelperCalls(func, columns, name, random_nb) ==
    LET column_str == columns[1]
        mean_name == HelperName(column_str, "mean", random_nb)
        median_name == HelperName(column_str, "median", random_nb)
        std_name == HelperName(column_str, "std", random_nb)
        count_name == HelperName(column_str, "count", random_nb)
        first == IF func = "mad"
                 THEN <<[name |-> median_name, expr |-> Expr("median", columns, {})]>>
                 ELSE <<[name |-> mean_name, expr |-> Expr("avg", columns, {})]>>
        more == IF func \notin {"aad", "mad"}
                THEN <<[name |-> std_name, expr |-> Expr("stddev", columns, {})],
                       [name |-> count_name, expr |-> Expr("count", columns, {})]>>
                ELSE <<>>
        result == IF func = "mad" THEN Expr(func, columns, {median_name})
                  ELSE IF func = "aad" THEN Expr(func, columns, {mean_name})
                  ELSE Expr(func, columns, {mean_name, std_name, count_name})
    IN first \o more \o <<[name |-> name, expr |-> result]>>

\* (variant: the helper columns are taken out of the frame when hidden)
hide_helpers_remove(F, func, column_str, random_nb) ==
    LET hidden == IF func \in {"kurtosis", "skewness", "jb"}
                  THEN {HelperName(column_str, k, random_nb) : k \in {"mean", "std", "count"}}
                  ELSE IF func = "aad" THEN {HelperName(column_str, "mean", random_nb)}
                  ELSE IF func = "mad" THEN {HelperName(column_str, "median", random_nb)}
                  ELSE {}
    IN [F EXCEPT !.exclude_columns = @ \cup hidden,
                 !.columns = SelectSeq(@, LAMBDA c : c \notin hidden)]

\* (variant: the result column is hidden with the helper columns)
hide_helpers_result(F, func, column_str, random_nb) ==
    LET hidden == IF func \in {"kurtosis", "skewness", "jb"}
                  THEN {HelperName(column_str, k, random_nb) : k \in {"mean", "std", "count"}}
                  ELSE IF func = "aad" THEN {HelperName(column_str, "mean", random_nb)}
                  ELSE IF func = "mad" THEN {HelperName(column_str, "median", random_nb)}
                  ELSE {}
    IN [F EXCEPT !.exclude_columns =
                     @ \cup hidden \cup {F.columns[Len(F.columns)]}]

\* lines 450-459: exclude_columns += the helper names of the function
hide_helpers(F, func, column_str, random_nb) ==
    IF func \in {"kurtosis", "skewness", "jb"}
    THEN [F EXCEPT !.exclude_columns =
                       @ \cup {HelperName(column_str, "mean", random_nb),
                               HelperName(column_str, "std", random_nb),
                               HelperName(column_str, "count", random_nb)}]
    ELSE IF func = "aad"
    THEN [F EXCEPT !.exclude_columns = @ \cup {HelperName(column_str, "mean", random_nb)}]
    ELSE IF func = "mad"
    THEN [F EXCEPT !.exclude_columns = @ \cup {HelperName(column_str, "median", random_nb)}]
    ELSE F

\* vDataFrame.analytic(func, columns, by=[], order_by, name): the frame
\* after the call and the error raised.  gen_name and OPTIONS are names
\* math.py never binds: evaluating them raises NameError.
analytic(F, func, columns, name, order_by, random_nb, fail_at) ==
    IF name = "" THEN [frame |-> F, err |-> "NameError"]
    ELSE IF func \in Aggregates
    THEN IF order_by THEN [frame |-> F, err |-> "NameError"]
         ELSE IF columns = <<>> THEN [frame |-> F, err |-> "MissingColumn"]
         ELSE LET calls == IF func \in HelperFuncs
                           THEN HelperCalls(func, columns, name, random_nb)
                           ELSE <<[name |-> name, expr |-> Expr(func, columns, {})]>>
                  r == EvalAll(F, calls, 1, fail_at)
              IN IF r.err # "none" THEN r
                 ELSE [frame |-> hide_helpers(r.frame, func, columns[1], random_nb),
                       err |-> "none"]
    ELSE IF columns = <<>> /\ func \in NeedColumn THEN [frame |-> F, err |-> "ParameterError"]
    ELSE IF columns # <<>> /\ func \notin ColumnAllowed
    THEN [frame |-> F, err |-> "ParameterError"]
    ELSE EvalAll(F, <<[name |-> name, expr |-> Expr(func, columns, {})]>>, 1, fail_at)

(* ------------------- one frame: analytic and templates ----------------- *)
MaxMathOps == 2        \* number of calls explored on this frame

Templates == {Const, Twice, AddCol("y", TRUE)}
TemplateCols == {"x", "k"}

MathFrame ==
    [InitFrame EXCEPT
        !.transformations = [c \in AllAliases |->
            IF c \in Aliases THEN InitFrame.transformations[c] ELSE <<>>],
        !.catalog = [c \in AllAliases |-> IF c \in Aliases THEN InitFrame.catalog[c] ELSE 0]]

InitMath ==
    /\ frames = [f \in {"f1"} |-> MathFrame]
    /\ intended = [f \in {"f1"} |-> [c \in AllAliases |->
           IF c \in SeqToSet(BaseCols) THEN [r \in Rows |-> BaseData[c][r]] ELSE NoRows]]
    /\ last = [op |-> "init", frame |-> "f1", alias |-> NoRef, copy_name |-> "", err |-> "none",
               cached |-> {}, depth |-> 0]
    /\ nops = MaxOps - MaxMathOps
    /\ db = {}
    /\ obj = [map |-> FALSE, store |-> TRUE]

\* vdf[alias].apply(func) with any template; func, db_ok and chain record
\* the template, the engine's answer and the chain before the call
ApplyTemplate(f, alias, func, db_ok) ==
    /\ Tick
    /\ f \in DOMAIN frames
    /\ HasColumn(frames[f], alias)
    /\ LET r == apply(frames[f], alias, func, "", db_ok) IN
       /\ frames' = [frames EXCEPT ![f] = r.frame]
       /\ intended' = IF r.err = "none"
                      THEN [intended EXCEPT ![f][alias] = IntendedAfter(intended[f], alias, func)]
                      ELSE intended
       /\ last' = [func |-> func, db_ok |-> db_ok, chain |-> frames[f].transformations[alias]]
                      @@ Call("apply", f, alias, "", r.err)

\* the number of self.eval calls analytic makes for a function
EvalCount(func) ==
    IF func \in {"kurtosis", "skewness", "jb"} THEN 4
    ELSE IF func \in {"aad", "mad"} THEN 2
    ELSE 1

\* vdf.analytic(func, columns, name=name, order_by=...); helpers are the
\* helper columns a call that returns has computed, created the columns the
\* call added besides the result, exclude the exclude-set before the call
Analytic(f, func, columns, name, order_by, random_nb, fail_at) ==
    /\ Tick
    /\ f \in DOMAIN frames
    /\ LET F == frames[f]
           r == analytic(F, func, columns, name, order_by, random_nb, fail_at)
           reached == r.err = "none" /\ func \in HelperFuncs
       IN /\ frames' = [frames EXCEPT ![f] = r.frame]
          /\ last' = [op |-> "analytic", frame |-> f, alias |-> NoRef, copy_name |-> "",
                      err |-> r.err, cached |-> {}, depth |-> 0,
                      func |-> func, name |-> name,
                      helpers |-> IF reached
                                  THEN {c.name : c \in SeqToSet(HelperCalls(func, columns, name, random_nb))}
                                           \ {name}
                                  ELSE {},
                      created |-> (SeqToSet(r.frame.columns) \ SeqToSet(F.columns)) \ {name},
                      exclude |-> F.exclude_columns]
    /\ UNCHANGED intended

NextMath ==
    \/ \E a \in TemplateCols, fn \in Templates, ok \in BOOLEAN : ApplyTemplate("f1", a, fn, ok)
    \/ \E fn \in AnalyticFuncs, c \in {<<>>} \cup {<<a>> : a \in AnalyticCols},
          n \in ResultNames, o \in BOOLEAN :
           \E k \in (IF fn \in HelperFuncs THEN RandomNbs ELSE {0}), i \in 0 .. EvalCount(fn) :
               Analytic("f1", fn, c, n, o, k, i)
    \/ \E a \in AllAliases : DropColumn("f1", a)
    \/ \E a \in AllAliases : ExcludeFromDefault("f1", a)
    \/ \E a \in AllAliases : IncludeInDefault("f1", a)

SpecMath == InitMath /\ [][NextMath]_vars

(* --------------------- properties of SpecMath -------------------------- *)
\* C11: excluding a column only adds its alias to the exclude-set: the column
\* stays in the mapping with its chain and its cached statistics as they
\* were, activeColumns() omits it, activeColumns(includeExcluded=true) still
\* lists it where it was inserted, and includeInDefault gives back the
\* activeColumns() of before.  The helper columns analytic hides are
\* excluded in this way.
C11_ExclusionIsNotRemoval ==
    [][\A f \in DOMAIN frames \cap DOMAIN frames' :
          LET old == frames[f]
              new == frames'[f]
          IN /\ \A a \in new.exclude_columns \ old.exclude_columns :
                    /\ HasColumn(new, a) /\ depth(new, a) >= 1
                    /\ a \notin SeqToSet(activeColumns(new, FALSE))
                    /\ a \in SeqToSet(activeColumns(new, TRUE))
                    /\ \A c \in SeqToSet(old.columns) :
                           IndexOf(activeColumns(new, TRUE), a) > IndexOf(old.columns, c)
                               <=> (~HasColumn(old, a)
                                       \/ IndexOf(old.columns, a) > IndexOf(old.columns, c))
                    /\ a \in SeqToSet(activeColumns(includeInDefault(new, a), FALSE))
             /\ (last'.op = "excludeFromDefault" /\ last'.frame = f) =>
                    /\ new = [old EXCEPT !.exclude_columns = @ \cup {last'.alias}]
                    /\ activeColumns(new, TRUE) = activeColumns(old, TRUE)
                    /\ activeColumns(includeInDefault(new, last'.alias), FALSE)
                           = activeColumns(old, FALSE)
             /\ (last'.op = "includeInDefault" /\ last'.frame = f) =>
                    /\ new = [old EXCEPT !.exclude_columns = @ \ {last'.alias}]
                    /\ activeColumns(excludeFromDefault(new, last'.alias), FALSE)
                           = activeColumns(old, FALSE)]_vars

\* a helper column hidden by analytic is shown again
C11_Witness ==
    /\ last.op = "includeInDefault"
    /\ last.alias \in HelperNames
    /\ last.alias \in SeqToSet(activeColumns(LastFrame, FALSE))

\* an apply whose template names a column the frame does not have
UnknownReference ==
    /\ last.op = "apply" /\ "func" \in DOMAIN last
    /\ last.func.ref # NoRef
    /\ ~HasColumn(LastFrame, last.func.ref)

\* C12 (as stated): an apply whose expression references an alias that is
\* not in the mapping fails with UnknownColumn.
C12_UnknownColumnError == (UnknownReference /\ last.db_ok) => last.err = "UnknownColumn"

\* C12 (amended): an apply whose expression references an alias that is not
\* in the mapping fails with QueryError, the error apply raises for every
\* failure of its probe query, and adds no step and no column: the frame is
\* left as it was.
C12_UnknownReferenceFails ==
    [][(/\ last'.op = "apply" /\ "func" \in DOMAIN last'
        /\ last'.func.ref # NoRef
        /\ ~HasColumn(frames[last'.frame], last'.func.ref))
           => last'.err = "QueryError" /\ frames' = frames]_vars

\* the engine answers, only the name is unknown
C12_Witness == UnknownReference /\ last.db_ok /\ last.err = "QueryError"

AppliedTemplate == last.op = "apply" /\ "func" \in DOMAIN last

\* C13 (as stated): an apply whose template has no placeholder or more than
\* one fails with InvalidStep and leaves the chain as it was (also when the
\* engine accepts the expression).
C13_PlaceholderValidation ==
    (AppliedTemplate /\ last.db_ok /\ Placeholders(last.func) # 1) =>
        /\ last.err = "InvalidStep"
        /\ LastFrame.transformations[last.alias] = last.chain

\* C13 (amended): apply does not count the placeholders: it never fails with
\* InvalidStep; whenever the probe query succeeds the step is appended,
\* with a template of zero, one or several placeholders alike, and whenever
\* the probe fails the call raises QueryError and the chain is unchanged.
C13_AnyTemplateAppended ==
    AppliedTemplate =>
        LET chain == LastFrame.transformations[last.alias]
            resolved == last.func.ref = NoRef \/ HasColumn(LastFrame, last.func.ref)
        IN IF last.db_ok /\ resolved
           THEN /\ last.err = "none"
                /\ Len(chain) > Len(last.chain)
                /\ SubSeq(chain, 1, Len(last.chain)) = last.chain
                /\ chain[Len(chain)].func = last.func
           ELSE last.err = "QueryError" /\ chain = last.chain

\* a template with two placeholders was appended after one with none
C13_Witness ==
    /\ AppliedTemplate /\ last.err = "none"
    /\ Placeholders(last.func) = 2
    /\ \E i \in 1 .. Len(LastFrame.history) : Placeholders(LastFrame.history[i].func) = 0

\* the helper kinds a function is said to hide
HiddenKinds(func) ==
    IF func \in {"kurtosis", "skewness", "jb"} THEN {"mean", "std", "count"}
    ELSE IF func = "aad" THEN {"mean"}
    ELSE IF func = "mad" THEN {"median"}
    ELSE {}

\* C19: after a successful analytic call the exclude-set is the one of before
\* plus the helper columns the call computed: the mean, std and count
\* helpers for kurtosis, skewness and jb, the mean helper for aad, the median
\* helper for mad, nothing for any other function; the helpers are columns of
\* the frame and the result column is never added.
C19_HelpersHidden ==
    (last.op = "analytic" /\ last.err = "none") =>
        /\ LastFrame.exclude_columns = last.exclude \cup last.helpers
        /\ {KindOf(h) : h \in last.helpers} = HiddenKinds(last.func)
        /\ Cardinality(last.helpers) = Cardinality(HiddenKinds(last.func))
        /\ \A h \in last.helpers : HasColumn(LastFrame, h)
        /\ HasColumn(LastFrame, last.name)
        /\ last.name \notin LastFrame.exclude_columns \ last.exclude

C19_Witness ==
    /\ last.op = "analytic" /\ last.err = "none" /\ last.func = "jb"
    /\ Cardinality(LastFrame.exclude_columns \ last.exclude) = 3

\* C20: when analytic returns or raises, every helper column it created that
\* is still in the frame is in the exclude-set.
C20_NoLeakedHelpers ==
    last.op = "analytic" =>
        \A h \in last.created : HasColumn(LastFrame, h) => h \in LastFrame.exclude_columns

\* alias c is computed in the select list of nesting level k: one of its
\* steps 1 .. k is a real expression, not an undefined placeholder
DefinedAt(F, c, k) ==
    /\ HasColumn(F, c)
    /\ \E j \in 1 .. Min({k, depth(F, c)}) : F.transformations[c][j].func # Identity

\* the last step of column c is part of the compiled query and every name
\* it reads is computed one level below it
Resolves(F, c) ==
    LET k == depth(F, c) IN
    /\ k >= 1 /\ k <= Levels(F)
    /\ \A h \in Refs(F.transformations[c][k].func) : DefinedAt(F, h, k - 1)

\* C21: after analytic has created a result column whose step names helper
\* columns and has put the helpers in the exclude-set, the helpers are left
\* out of the default column list only: they are still columns of the frame,
\* and each is computed at a nesting level below the level where the result
\* column's step reads it, as is the input column, so every name of the
\* result's step resolves in the compiled query.
C21_ExcludedStayResolvable ==
    [][(/\ last'.op = "analytic" /\ last'.err = "none" /\ last'.helpers # {}
        /\ ~HasColumn(frames[last'.frame], last'.name))
          => LET F == frames'[last'.frame]
                 step == F.transformations[last'.name][depth(F, last'.name)]
             IN /\ last'.helpers \subseteq F.exclude_columns
                /\ last'.helpers \subseteq Refs(step.func)
                /\ \A h \in last'.helpers :
                       h \notin SeqToSet(get_columns(F)) /\ HasColumn(F, h)
                /\ Resolves(F, last'.name)]_vars

\* a result column created by jb over a column that was transformed before:
\* its only real step is at level 4 and reads the three hidden helpers at
\* level 3
C21_Witness ==
    /\ last.op = "analytic" /\ last.err = "none" /\ last.func = "jb"
    /\ last.helpers \subseteq LastFrame.exclude_columns
    /\ depth(LastFrame, last.name) >= 4
    /\ \A j \in 1 .. depth(LastFrame, last.name) - 1 :
           LastFrame.transformations[last.name][j].func = Identity
    /\ Resolves(LastFrame, last.name)

\* C23: the helper column names analytic generates from its random number
\* never equal an alias that is already in the frame, helper columns left by
\* an earlier analytic call on the same column included.
C23_HelperNamesFresh ==
    [][(last'.op = "analytic" /\ last'.err = "none")
          => \A h \in last'.helpers : ~HasColumn(frames[last'.frame], h)]_vars

\* C24: analytic called with an aggregate function, a result name and no
\* input column raises MissingColumn, whether or not order_by is given, adds
\* no column and leaves the exclude-set as it was.
C24_MissingColumn ==
    [][\A fn \in Aggregates, n \in ResultNames \ {""}, o \in BOOLEAN, k \in RandomNbs :
        \A i \in 0 .. EvalCount(fn) :
          Analytic("f1", fn, <<>>, n, o, k, i)
              => /\ last'.err = "MissingColumn"
                 /\ frames'["f1"].columns = frames["f1"].columns
                 /\ frames'["f1"].exclude_columns = frames["f1"].exclude_columns]_vars

\* C25: analytic raises ParameterError and leaves the frame unchanged when
\* lead, lag, first_value, last_value or pct_change is called without an
\* input column, and when row_number, percent_rank, dense_rank or rank is
\* called with one; otherwise (the engine accepting the expression, the
\* result name not yet a column) exactly one column, named by 'name', is
\* added.
C25_ParameterError ==
    [][\A fn \in AnalyticFuncs \ Aggregates, n \in ResultNames, o \in BOOLEAN,
          c \in {<<>>} \cup {<<a>> : a \in AnalyticCols} :
          Analytic("f1", fn, c, n, o, 0, 0)
              => IF \/ c = <<>> /\ fn \in NeedColumn
                    \/ c # <<>> /\ fn \in {"row_number", "percent_rank", "dense_rank", "rank"}
                 THEN last'.err = "ParameterError" /\ frames' = frames
                 ELSE HasColumn(frames["f1"], n)
                         \/ frames'["f1"].columns = Append(frames["f1"].columns, n)]_vars

(* ------------- one column: apply_fun, div and get_len ------------------ *)
\* the categories a column can have, and the engine type standing for each
Categories == {"vmap", "complex", "text", "int", "float", "date"}
DivArgs == {0 - 1, 0, 2}
LenFuncs == {"len", "length", "abs"}

ColumnFrame(cat) ==
    [InitFrame EXCEPT !.transformations["x"] = <<Step(RawColumn("x"), cat, cat)>>]

\* a frame whose column x has any category; the interpreter runs with or
\* without -O
InitColumn ==
    /\ \E cat \in Categories : frames = [f \in {"f1"} |-> ColumnFrame(cat)]
    /\ intended = [f \in {"f1"} |-> [c \in Aliases |-> NoRows]]
    /\ last = [op |-> "init", frame |-> "f1", alias |-> NoRef, copy_name |-> "", err |-> "none",
               cached |-> {}, depth |-> 0]
    /\ nops = MaxOps - MaxMathOps
    /\ db = {}
    /\ \E o \in BOOLEAN : obj = [optimize |-> o]

\* vdf[alias].apply_fun(func)
ApplyFun(f, alias, func, db_ok) ==
    /\ Tick
    /\ HasColumn(frames[f], alias)
    /\ LET r == apply_fun(frames[f], alias, func, db_ok) IN
       /\ frames' = [frames EXCEPT ![f] = r.frame]
       /\ last' = [func |-> func] @@ Call("apply_fun", f, alias, "", r.err)
    /\ UNCHANGED intended

\* vdf[alias].div(x)
Div(f, alias, x, db_ok) ==
    /\ Tick
    /\ HasColumn(frames[f], alias)
    /\ LET r == div(frames[f], alias, x, obj.optimize, db_ok) IN
       /\ frames' = [frames EXCEPT ![f] = r.frame]
       /\ last' = [x |-> x] @@ Call("div", f, alias, "", r.err)
    /\ UNCHANGED intended

\* vdf[alias].get_len(): a column of a new frame is returned, expr is its
\* expression
GetLen(f, alias) ==
    /\ Tick
    /\ HasColumn(frames[f], alias)
    /\ last' = [expr |-> get_len(frames[f], alias)] @@ Call("get_len", f, alias, "", "none")
    /\ UNCHANGED <<frames, intended>>

NextColumn ==
    \/ \E fn \in LenFuncs, ok \in BOOLEAN : ApplyFun("f1", "x", fn, ok)
    \/ \E x \in DivArgs, ok \in BOOLEAN : Div("f1", "x", x, ok)
    \/ GetLen("f1", "x")
    \/ \E s \in StatNames : SetCachedStat("f1", "x", s)

SpecColumn == InitColumn /\ [][NextColumn]_vars

\* C26: for every category of the column, the step apply_fun appends for
\* 'len' or 'length' calls the SQL function get_len uses for that category:
\* MAPSIZE for vmap, APPLY_COUNT_ELEMENTS for complex, LENGTH for every
\* other category.
C26_SameLengthFunction ==
    [][\A fn \in {"len", "length"}, ok \in BOOLEAN :
          (ApplyFun("f1", "x", fn, ok) /\ last'.err = "none")
              => LET F == frames'["f1"]
                     cat == category(frames["f1"], "x")
                     fun == F.transformations["x"][depth(F, "x")].func.op
                 IN /\ fun = get_len(frames["f1"], "x").op
                    /\ fun = IF cat = "vmap" THEN "MAPSIZE"
                             ELSE IF cat = "complex" THEN "APPLY_COUNT_ELEMENTS"
                             ELSE "LENGTH"]_vars

\* C27: div(0) is rejected with an error and changes nothing: no step, the
\* cache and the history as they were; div(x) with x # 0 appends exactly one
\* step '{} / (x)' to the column (or fails in the engine and changes nothing).
C27_DivByZeroRejected ==
    [][\A x \in DivArgs, ok \in BOOLEAN :
          Div("f1", "x", x, ok)
              => IF x = 0 \/ last'.err # "none"
                 THEN last'.err # "none" /\ frames' = frames
                 ELSE /\ frames'["f1"].transformations["x"]
                             = Append(frames["f1"].transformations["x"],
                                      frames'["f1"].transformations["x"][last'.depth + 1])
                      /\ frames'["f1"].transformations["x"][last'.depth + 1].func = DivBy(x)]_vars

(* ------------------- models stored in the database --------------------- *)
\* neighbors.py: KernelDensity keeps a model and a table of KDE values,
\* LocalOutlierFactor a table; Ridge stands for the models trained by the
\* engine (Ridge, RandomForestRegressor), which keep a model.
ModelKinds == {"KernelDensity", "LocalOutlierFactor", "Ridge"}
ModelName == [KernelDensity |-> "kde", LocalOutlierFactor |-> "lof", Ridge |-> "ridge"]
Stored(method, name) == [method |-> method, name |-> name]

\* table_name = self.model_name.replace('"', "") + "_KernelDensity_Map"
MapTable == Stored("table", "kde_KernelDensity_Map")
TmpTables == {Stored("table", "tmp_" \o n) : n \in {"main", "distance", "lrd", "lof"}}

\* everything that is stored under a model
ObjectsOf(kind) ==
    IF kind = "KernelDensity" THEN {Stored("model", "kde"), MapTable}
    ELSE IF kind = "LocalOutlierFactor" THEN {Stored("table", "lof")}
    ELSE {Stored("model", "ridge")}
Objects == UNION {ObjectsOf(k) : k \in ModelKinds}

\* verticapy.sql.drop.drop(name, method): drops the object if it is there
sql_drop(D, name, method) ==
    [db |-> D \ {Stored(method, name)}, ret |-> Stored(method, name) \in D]

\* KernelDensity.drop
KernelDensity_drop(D, O) ==
    IF O.map /\ MapTable \notin D
    THEN [db |-> D, ret |-> FALSE]
    ELSE LET d == IF O.map THEN sql_drop(D, MapTable.name, "table").db ELSE D IN
         sql_drop(d, "kde", "model")

\* LocalOutlierFactor.drop
LocalOutlierFactor_drop(D) ==
    IF Stored("table", "lof") \in D
    THEN sql_drop(D, "lof", "table")
    ELSE [db |-> D, ret |-> FALSE]

\* drop of a model trained by the engine
VerticaModel_drop(D, kind) == sql_drop(D, ModelName[kind], "model")

\* _is_already_stored(raise_error=True): raises when the model is there
is_already_stored(D, kind) ==
    Stored(IF kind = "LocalOutlierFactor" THEN "table" ELSE "model", ModelName[kind]) \in D

\* fit of a model trained by the engine; fail: the engine rejects the training
VerticaModel_fit(D, kind, overwrite, fail) ==
    LET d == IF overwrite THEN VerticaModel_drop(D, kind).db ELSE D IN
    IF ~overwrite /\ is_already_stored(D, kind) THEN [db |-> D, err |-> "NameError"]
    ELSE IF fail # "none" THEN [db |-> d, err |-> "QueryError"]
    ELSE [db |-> d \cup {Stored("model", ModelName[kind])}, err |-> "none"]

\* KernelDensity.fit; fail = "insert": an INSERT of the loop is rejected,
\* fail = "tree": the training of the regression tree is rejected
KernelDensity_fit(D, O, overwrite, fail) ==
    LET d1 == IF overwrite THEN KernelDensity_drop(D, O).db ELSE D IN
    IF ~overwrite /\ is_already_stored(D, "KernelDensity")
    THEN [db |-> D, obj |-> O, err |-> "NameError"]
    ELSE IF ~O.store THEN [db |-> d1, obj |-> O, err |-> "none"]
    ELSE IF MapTable \in d1 THEN [db |-> d1, obj |-> O, err |-> "QueryError"]
    ELSE IF fail = "insert" THEN [db |-> d1 \cup {MapTable}, obj |-> O, err |-> "QueryError"]
    ELSE LET r == VerticaModel_fit(d1 \cup {MapTable}, "KernelDensity", overwrite,
                                   IF fail = "tree" THEN "tree" ELSE "none")
         IN [db |-> r.db, obj |-> [O EXCEPT !.map = TRUE], err |-> r.err]

\* the statements of the try block of LocalOutlierFactor.fit, in order; the
\* table of the input relation is copied to tmp_main only when no index
\* column is given
LofSteps(index) ==
    (IF index THEN <<>> ELSE <<"main">>)
        \o <<"distance", "lrd", "lof", "model", "count", "attributes">>

\* the try block: the statements before the one the engine rejects have run;
\* each temporary table is dropped and created again, then the table of the
\* model is created
RECURSIVE LofTry(_, _, _)
LofTry(D, steps, fail) ==
    IF steps = <<>> THEN [db |-> D, err |-> "none"]
    ELSE IF Head(steps) = fail THEN [db |-> D, err |-> "QueryError"]
    ELSE LET s == Head(steps)
             d == IF s \in {"main", "distance", "lrd", "lof"}
                  THEN sql_drop(D, "tmp_" \o s, "table").db \cup {Stored("table", "tmp_" \o s)}
                  ELSE IF s = "model" THEN D \cup {Stored("table", "lof")}
                  ELSE D
         IN LofTry(d, Tail(steps), fail)

\* (variant: the temporary tables are dropped at the end of the try block,
\* not in a finally block)
LofFinally_onSuccess(r) ==
    IF r.err # "none" THEN r.db
    ELSE sql_drop(sql_drop(sql_drop(sql_drop(r.db, "tmp_main", "table").db,
                                    "tmp_distance", "table").db,
                           "tmp_lrd", "table").db,
                  "tmp_lof", "table").db

\* the finally block: the four drops, whatever the try block did
LofFinally(r) ==
    sql_drop(sql_drop(sql_drop(sql_drop(r.db, "tmp_main", "table").db,
                               "tmp_distance", "table").db,
                      "tmp_lrd", "table").db,
             "tmp_lof", "table").db

\* LocalOutlierFactor.fit; tmp: the temporary tables the try block had made
\* when it ended
LocalOutlierFactor_fit(D, index, overwrite, fail) ==
    LET d1 == IF overwrite THEN LocalOutlierFactor_drop(D).db ELSE D IN
    IF ~overwrite /\ is_already_stored(D, "LocalOutlierFactor")
    THEN [db |-> D, err |-> "NameError", tmp |-> {}]
    ELSE LET r == LofTry(d1, LofSteps(index), fail) IN
         [db |-> LofFinally(r), err |-> r.err, tmp |-> r.db \cap TmpTables]

\* the statements of fit the engine can reject
FailPoints(kind) ==
    IF kind = "LocalOutlierFactor" THEN {"none"} \cup SeqToSet(LofSteps(FALSE))
    ELSE {"none", "insert", "tree"}

InitModels ==
    /\ db = {}
    /\ obj = [map |-> FALSE, store |-> TRUE]
    /\ last = [op |-> "init", kind |-> "Ridge", err |-> "none", before |-> {}]
    /\ nops = 0
    /\ frames = <<>>
    /\ intended = <<>>

Tock == nops < MaxOps /\ nops' = nops + 1 /\ UNCHANGED <<frames, intended>>

\* KernelDensity(name, store=store): a new object for the same model name
Construct(store) ==
    /\ Tock
    /\ obj' = [map |-> FALSE, store |-> store]
    /\ last' = [op |-> "construct", kind |-> "KernelDensity", err |-> "none", before |-> db]
    /\ UNCHANGED db

\* model.fit(...), with the option overwrite_model on or off
Fit(kind, index, overwrite, fail) ==
    /\ Tock
    /\ LET r == IF kind = "KernelDensity" THEN KernelDensity_fit(db, obj, overwrite, fail)
                ELSE IF kind = "LocalOutlierFactor"
                THEN LocalOutlierFactor_fit(db, index, overwrite, fail) @@ [obj |-> obj]
                ELSE VerticaModel_fit(db, kind, overwrite, fail) @@ [obj |-> obj]
       IN /\ db' = r.db
          /\ obj' = r.obj
          /\ last' = [op |-> "fit", kind |-> kind, err |-> r.err, before |-> db,
                      tmp |-> IF "tmp" \in DOMAIN r THEN r.tmp ELSE {}]

\* model.drop()
Drop(kind) ==
    /\ Tock
    /\ LET r == IF kind = "KernelDensity" THEN KernelDensity_drop(db, obj)
                ELSE IF kind = "LocalOutlierFactor" THEN LocalOutlierFactor_drop(db)
                ELSE VerticaModel_drop(db, kind)
       IN /\ db' = r.db
          /\ last' = [op |-> "drop", kind |-> kind, err |-> "none", before |-> db]
    /\ UNCHANGED obj

\* drop(name, method=...) called on one stored object, by the user or by
\* another session
SqlDrop(o) ==
    /\ Tock
    /\ o \in db
    /\ db' = sql_drop(db, o.name, o.method).db
    /\ last' = [op |-> "sql_drop", kind |-> "Ridge", err |-> "none", before |-> db]
    /\ UNCHANGED obj

NextModels ==
    \/ \E store \in BOOLEAN : Construct(store)
    \/ \E k \in ModelKinds, o \in BOOLEAN :
           \E index \in (IF k = "LocalOutlierFactor" THEN BOOLEAN ELSE {FALSE}),
              fail \in FailPoints(k) : Fit(k, index, o, fail)
    \/ \E k \in ModelKinds : Drop(k)
    \/ \E o \in Objects : SqlDrop(o)

SpecModels == InitModels /\ [][NextModels]_vars

\* C17: after a fit that stores the model, the model is present under its
\* name; after drop() nothing stored under the model remains (for
\* KernelDensity neither the model nor the table of KDE values, for
\* LocalOutlierFactor not its table), whatever subset of these objects
\* existed when drop() was called.
C17_DropLifecycle ==
    /\ (last.op = "fit" /\ last.err = "none" /\ (last.kind = "KernelDensity" => obj.store))
           => is_already_stored(db, last.kind)
    /\ last.op = "drop" => db \cap ObjectsOf(last.kind) = {}

\* C28: whenever LocalOutlierFactor.fit returns or raises after it has
\* started creating temporary tables, none of its four temporary tables
\* (main, distance, lrd, lof) remains, whichever statement was rejected.
C28_TmpTablesDropped ==
    (last.op = "fit" /\ last.kind = "LocalOutlierFactor") => db \cap TmpTables = {}

\* fit raised when three temporary tables had been created
C28_Witness ==
    /\ last.op = "fit" /\ last.kind = "LocalOutlierFactor" /\ last.err = "QueryError"
    /\ Cardinality(last.tmp) = 3
    /\ db \cap TmpTables = {}

\* C29: with overwrite_model enabled, KernelDensity.fit with storing enabled
\* completes and replaces the stored objects whenever a model and a table of
\* KDE values of the same name exist, also when they were stored by another
\* KernelDensity object of the same name.
C29_OverwriteOnRefit ==
    [][(/\ Fit("KernelDensity", FALSE, TRUE, "none")
        /\ obj.store
        /\ ObjectsOf("KernelDensity") \subseteq db)
          => /\ last'.err = "none"
             /\ ObjectsOf("KernelDensity") \subseteq db']_vars

(* --------------- KernelDensity.fit: the loop of INSERTs ---------------- *)
BatchSize == 100      \* min(r + 100, len(y)) and r += 100
MaxGrid == 250        \* the largest number of grid points, len(y), explored

\* range(a, b)
range(a, b) == [i \in 1 .. Max({0, b - a}) |-> a + i - 1]

\* (variant: the batch always ends at r + 100)
batch_end_noMin(r, n) == r + BatchSize

\* m = min(r + 100, len(y))
batch_end(r, n) == Min({r + BatchSize, n})

\* obj: the locals of fit (n = len(y), r, idx) and the position in the loop;
\* db: the statements sent to the engine so far
InitInsert ==
    /\ \E n \in 0 .. MaxGrid : obj = [n |-> n, r |-> 0, idx |-> 0, pc |-> "while"]
    /\ db = <<>>
    /\ last = [op |-> "init"]
    /\ nops = 0
    /\ frames = <<>>
    /\ intended = <<>>

\* one pass of the body of `while r < len(y)`: the rows range(r, m) in one
\* INSERT, then COMMIT, then r += 100 and idx += 1
InsertBatch ==
    /\ obj.pc = "while"
    /\ obj.r < obj.n
    /\ LET m == batch_end(obj.r, obj.n) IN
       db' = db \o <<[stmt |-> "INSERT", rows |-> range(obj.r, m), step |-> obj.idx],
                     [stmt |-> "COMMIT"]>>
    /\ obj' = [obj EXCEPT !.r = @ + BatchSize, !.idx = @ + 1]
    /\ UNCHANGED <<frames, intended, last, nops>>

\* the test of the while loop fails: the loop is left
LeaveLoop ==
    /\ obj.pc = "while"
    /\ ~(obj.r < obj.n)
    /\ obj' = [obj EXCEPT !.pc = "done"]
    /\ UNCHANGED <<frames, intended, last, nops, db>>

NextInsert == InsertBatch \/ LeaveLoop

\* the loop is sequential code: it keeps running until it is left
SpecInsert == InitInsert /\ [][NextInsert]_vars /\ WF_vars(NextInsert)

Inserts == SelectSeq(db, LAMBDA s : s.stmt = "INSERT")

RECURSIVE Flatten(_)
Flatten(batches) ==
    IF batches = <<>> THEN <<>> ELSE Head(batches).rows \o Flatten(Tail(batches))

\* when the loop is left: ceil(n / 100) INSERT statements, none with more
\* than 100 rows, their rows together the indices 0 .. n-1 once each in
\* increasing order, and a COMMIT after each INSERT
BatchesComplete ==
    obj.pc = "done" =>
        /\ Len(Inserts) = (obj.n + BatchSize - 1) \div BatchSize
        /\ \A k \in 1 .. Len(Inserts) : Len(Inserts[k].rows) <= BatchSize
        /\ Flatten(Inserts) = range(0, obj.n)
        /\ Len(db) = 2 * Len(Inserts)
        /\ \A k \in 1 .. Len(Inserts) :
               db[2 * k - 1].stmt = "INSERT" /\ db[2 * k].stmt = "COMMIT"

\* C30: the loop of INSERTs of KernelDensity.fit terminates for every number
\* n >= 0 of grid points, issues ceil(n / 100) INSERT statements of at most
\* 100 rows each, puts every index 0 .. n-1 in exactly one batch, in
\* increasing order, and follows each batch by a COMMIT.
C30_BatchedInsert == []BatchesComplete /\ <>(obj.pc = "done")

\* the loop was left after two full batches and a shorter third one
C30_Witness ==
    /\ obj.pc = "done"
    /\ Len(Inserts) = 3
    /\ Len(Inserts[2].rows) = BatchSize
    /\ Len(Inserts[3].rows) < BatchSize

====
